---------------------------- MODULE Spec2Model ----------------------------
(***************************************************************************)
(* A model of the two transcription pipelines of the repository:           *)
(*   src/STT/ft_api.py  the synchronous ("fast") transcription client and  *)
(*                      its 429-aware request executor post_with_retries;  *)
(*   src/STT/bt_api.py  the batch pipeline: submit_job, monitor_until_done *)
(*                      (the job poller), list_files and main's resolving  *)
(*                      of the terminal job, with download_file.           *)
(* The remote speech service is the environment: every HTTP response is    *)
(* drawn from a small set.  Durations are whole seconds.                   *)
(***************************************************************************)
EXTENDS Integers, Sequences, FiniteSets, TLC

VARIABLES
    prog,                   \* which script runs: "ft" (ft_api.py) or "bt" (bt_api.py)
    pc,                     \* the position of the run in the script
    ENTRA_ACCESS_TOKEN,     \* environment-derived module constants of both scripts
    SPEECH_KEY,
    AUDIO_FILE_PATH,        \* ft_api.py
    isfile,                 \* os.path.isfile(AUDIO_FILE_PATH)
    AUDIO_URL,
    MAX_RETRIES,
    RETRY_BACKOFF_SECONDS,
    SPEECH_REGION,          \* bt_api.py
    INPUT_CONTAINER_SAS_URL,
    OUTPUT_CONTAINER_SAS_URL,
    POLL_INTERVAL_SECONDS,
    MAX_POLL_MINUTES,
    BACKOFF_MULTIPLIER,     \* a ratio <<numerator, denominator>>
    DISPLAY_NAME,
    DESCRIPTION,
    LOCALE,
    PHRASES,                \* the phrase list, a sequence of strings
    DOWNLOAD_RESULTS,
    attempt,                \* post_with_retries: local attempt
    response,               \* post_with_retries: local response (last one received)
    ret,                    \* the value post_with_retries returned, or NoResponse
    wait,                   \* post_with_retries: local wait
    resp,                   \* submit_job: local resp (the answer to the creation request)
    job_id,                 \* bt main: the identifier submit_job returned
    job,                    \* monitor_until_done: local job (last record fetched)
    waited,                 \* monitor_until_done: local waited
    interval,               \* monitor_until_done: local interval
    main_job,               \* bt main: the record monitor_until_done returned
    listing,                \* bt main: the response of the file listing call
    downloaded,             \* bt main: the locators download_file fetched, oldest first
    outcome,                \* bt main: what the run reported at its end
    fetches,                \* history: the status fetches answered so far
    seenTerminal,           \* history: how many of them carried a terminal status
    requests,               \* history: the HTTP requests issued so far, oldest first
    slept,                  \* history: the durations time.sleep completed, oldest first
    exc,                    \* the exception that ended the run, or NoExc
    exitcode                \* the process exit status, or NotExited

cfgAuth == <<ENTRA_ACCESS_TOKEN, SPEECH_KEY>>
cfgFt == <<AUDIO_FILE_PATH, isfile, AUDIO_URL, MAX_RETRIES, RETRY_BACKOFF_SECONDS>>
cfgBt == <<SPEECH_REGION, INPUT_CONTAINER_SAS_URL, OUTPUT_CONTAINER_SAS_URL,
           POLL_INTERVAL_SECONDS, MAX_POLL_MINUTES, BACKOFF_MULTIPLIER,
           DISPLAY_NAME, DESCRIPTION, LOCALE, PHRASES, DOWNLOAD_RESULTS>>
cfg == <<prog, cfgAuth, cfgFt, cfgBt>>
ftLocals == <<attempt, response, ret, wait>>
btLocals == <<resp, job_id, job, waited, interval, main_job, listing, downloaded, outcome,
             fetches, seenTerminal>>

vars == <<pc, cfg, ftLocals, btLocals, requests, slept, exc, exitcode>>

-----------------------------------------------------------------------------
(* Bounds of the model and the values the environment may supply.          *)

\* MAX_RETRIES is drawn from 0..MaxRetriesBound.
MaxRetriesBound == 3

\* Python's None (an absent header, an unset local).
None == "None"
\* An exception: its type, the call that raised it, and its message arguments.
Exc(type, at, args) == [type |-> type, at |-> at, args |-> args]
NoExc == Exc(None, None, <<>>)
NotExited == "running"

\* The placeholder default of SPEECH_KEY in ft_api.py.
FtKeyPlaceholder == "<YourSpeechResourceKey>"

Tokens == {"", "tok"}
FtKeys == {"", FtKeyPlaceholder, "key"}
Paths == {"", "a.wav"}
Urls == {"", "https://audio/a.wav"}
BackoffBases == {1, 2}

\* Retry-After header values a 429 response may carry.
Hints == {None, "", "abc", "-1", "0", "5"}

\* float(s): the parsed number, or ValueError.
Float(s) ==
    CASE s = "-1" -> [ok |-> TRUE, val |-> -1]
      [] s = "0"  -> [ok |-> TRUE, val |-> 0]
      [] s = "5"  -> [ok |-> TRUE, val |-> 5]
      [] OTHER    -> [ok |-> FALSE, val |-> 0]

\* Python truthiness of an optional string.
Truthy(s) == s # None /\ s # ""

RECURSIVE Pow2(_)
Pow2(n) == IF n <= 0 THEN 1 ELSE 2 * Pow2(n - 1)

\* The responses the service may give to one request (serial is set on receipt).
Responses ==
    {[status_code |-> 429, retry_after |-> h, serial |-> 0] : h \in Hints}
    \cup {[status_code |-> c, retry_after |-> None, serial |-> 0] : c \in {200, 500}}

\* A JSON payload on the wire: the text of its string members in order, and
\* its properties object.
NoProperties ==
    [present |-> FALSE, wordLevelTimestampsEnabled |-> FALSE, diagnosticMode |-> FALSE,
     profanityFilterMode |-> <<>>, punctuationMode |-> <<>>, speechRecognitionPhrases |-> <<>>]
NoJson == [members |-> <<>>, properties |-> NoProperties]

\* One HTTP request: the call, its credential headers, the job it names, and
\* its JSON payload.
Request(api, auth, id) == [api |-> api, auth |-> auth, job |-> id, json |-> NoJson]

NoResponse == [status_code |-> 0, retry_after |-> None, serial |-> 0]

\* A job record as the status endpoint returns it (serial is set on receipt).
NoJob == [status |-> None, state |-> None, error |-> None, serial |-> 0]

\* The response of the file listing call, before it is made; a field of the
\* payload is absent (NoList) or a list of the kinds of the files.
NoList == [present |-> FALSE, items |-> <<>>]
NoListing == [status_code |-> 0, values |-> NoList, files |-> NoList]

\* The answer to the creation request, before it is made and after submit_job returned.
NoCreateResponse == [status_code |-> 0, id |-> None, self |-> None, Location |-> None]

\* requests.Response.ok
Ok(r) == r.status_code < 400

-----------------------------------------------------------------------------
(* Strings as texts: the characters of the strings of the model, for the   *)
(* operations of the code that work on characters.                         *)

\* The strings of the model that are read character by character.
Texts == {"MyBatchJob", "say \"hi\"", "a\\b", "Transcribe multiple audio files from a container",
          "en-US", "fil-PH", "https://in?sas", "https://out?sas",
          "displayName", "description", "locale", "recordingsUrl",
          "resultsContainerUrl", "Masked", "DictatedAndAutomatic", "Contoso",
          "Transcription", "TranscriptionReport", "RESULT", "Log",
          "transcription", "result", ""}

\* The characters of a string.
Chars(s) ==
    CASE s = "MyBatchJob" ->
           <<"M", "y", "B", "a", "t", "c", "h", "J", "o", "b">>
      [] s = "say \"hi\"" ->
           <<"s", "a", "y", " ", "\"", "h", "i", "\"">>
      [] s = "a\\b" ->
           <<"a", "\\", "b">>
      [] s = "Transcribe multiple audio files from a container" ->
           <<"T", "r", "a", "n", "s", "c", "r", "i", "b", "e", " ", "m", "u", "l", "t", "i", "p", "l", "e", " ", "a", "u", "d", "i", "o", " ", "f", "i", "l", "e", "s", " ", "f", "r", "o", "m", " ", "a", " ", "c", "o", "n", "t", "a", "i", "n", "e", "r">>
      [] s = "en-US" ->
           <<"e", "n", "-", "U", "S">>
      [] s = "fil-PH" ->
           <<"f", "i", "l", "-", "P", "H">>
      [] s = "https://in?sas" ->
           <<"h", "t", "t", "p", "s", ":", "/", "/", "i", "n", "?", "s", "a", "s">>
      [] s = "https://out?sas" ->
           <<"h", "t", "t", "p", "s", ":", "/", "/", "o", "u", "t", "?", "s", "a", "s">>
      [] s = "displayName" ->
           <<"d", "i", "s", "p", "l", "a", "y", "N", "a", "m", "e">>
      [] s = "description" ->
           <<"d", "e", "s", "c", "r", "i", "p", "t", "i", "o", "n">>
      [] s = "locale" ->
           <<"l", "o", "c", "a", "l", "e">>
      [] s = "recordingsUrl" ->
           <<"r", "e", "c", "o", "r", "d", "i", "n", "g", "s", "U", "r", "l">>
      [] s = "resultsContainerUrl" ->
           <<"r", "e", "s", "u", "l", "t", "s", "C", "o", "n", "t", "a", "i", "n", "e", "r", "U", "r", "l">>
      [] s = "Masked" ->
           <<"M", "a", "s", "k", "e", "d">>
      [] s = "DictatedAndAutomatic" ->
           <<"D", "i", "c", "t", "a", "t", "e", "d", "A", "n", "d", "A", "u", "t", "o", "m", "a", "t", "i", "c">>
      [] s = "Contoso" ->
           <<"C", "o", "n", "t", "o", "s", "o">>
      [] s = "Transcription" ->
           <<"T", "r", "a", "n", "s", "c", "r", "i", "p", "t", "i", "o", "n">>
      [] s = "TranscriptionReport" ->
           <<"T", "r", "a", "n", "s", "c", "r", "i", "p", "t", "i", "o", "n", "R", "e", "p", "o", "r", "t">>
      [] s = "RESULT" ->
           <<"R", "E", "S", "U", "L", "T">>
      [] s = "Log" ->
           <<"L", "o", "g">>
      [] s = "transcription" ->
           <<"t", "r", "a", "n", "s", "c", "r", "i", "p", "t", "i", "o", "n">>
      [] s = "result" ->
           <<"r", "e", "s", "u", "l", "t">>
      [] OTHER -> <<>>

UpperLetters == <<"A", "B", "C", "D", "E", "F", "G", "H", "I", "J", "K", "L", "M",
                  "N", "O", "P", "Q", "R", "S", "T", "U", "V", "W", "X", "Y", "Z">>
LowerLetters == <<"a", "b", "c", "d", "e", "f", "g", "h", "i", "j", "k", "l", "m",
                  "n", "o", "p", "q", "r", "s", "t", "u", "v", "w", "x", "y", "z">>

\* str.lower() on a text.
Lower(cs) ==
    [i \in DOMAIN cs |->
        IF \E u \in DOMAIN UpperLetters : UpperLetters[u] = cs[i]
        THEN LowerLetters[CHOOSE u \in DOMAIN UpperLetters : UpperLetters[u] = cs[i]]
        ELSE cs[i]]

\* Python's  sub in cs  on texts.
Contains(cs, sub) ==
    \E i \in 1..(Len(cs) - Len(sub) + 1) : SubSeq(cs, i, i + Len(sub) - 1) = sub

\* json.dumps on a string: the text between the quotes, with the quote and
\* the backslash escaped.
RECURSIVE JsonEscape(_)
JsonEscape(cs) ==
    IF cs = <<>> THEN <<>>
    ELSE (IF Head(cs) \in {"\"", "\\"} THEN <<"\\", Head(cs)>> ELSE <<Head(cs)>>)
         \o JsonEscape(Tail(cs))

-----------------------------------------------------------------------------
(* ft_api.py                                                               *)

\* build_headers: the authentication headers, or ValueError.
FtBuildHeaders ==
    IF ENTRA_ACCESS_TOKEN # ""
    THEN [raises |-> FALSE, headers |-> {"Authorization"}]
    ELSE IF SPEECH_KEY # "" /\ SPEECH_KEY # FtKeyPlaceholder
    THEN [raises |-> FALSE, headers |-> {"Ocp-Apim-Subscription-Key"}]
    ELSE [raises |-> TRUE, headers |-> {}]

\* A variant of FtMainBranch that tests the URL first.
FtMainBranchUrlFirst ==
    IF AUDIO_URL # "" THEN "transcribe_from_url"
    ELSE IF AUDIO_FILE_PATH # "" /\ isfile THEN "transcribe_inline_file"
    ELSE "exit"

\* main, lines 250-258: the choice of the audio source.
FtMainBranch ==
    IF AUDIO_FILE_PATH # "" /\ isfile THEN "transcribe_inline_file"
    ELSE IF AUDIO_URL # "" THEN "transcribe_from_url"
    ELSE "exit"

\* A variant of BudgetExhausted that allows one retry too many.
BudgetExhaustedLate(a) == a > MAX_RETRIES + 1

\* post_with_retries, line 147: the retry budget is spent.
BudgetExhausted(a) == a > MAX_RETRIES

\* A variant of IsThrottled that also retries server errors.
IsThrottledOrServerError(r) == r.status_code >= 429

\* post_with_retries, line 143: the response is retried rather than returned.
IsThrottled(r) == r.status_code = 429

\* post_with_retries, lines 151-158: the wait before retry number a.
ComputeWait(r, a) ==
    IF Truthy(r.retry_after)
    THEN IF Float(r.retry_after).ok
         THEN Float(r.retry_after).val
         ELSE RETRY_BACKOFF_SECONDS * Pow2(a - 1)
    ELSE RETRY_BACKOFF_SECONDS * Pow2(a - 1)

\* time.sleep(d) raises ValueError for a negative d.
SleepRaises(d) == d < 0

\* The defaults of bt_api.py for the job metadata, the phrase list and the
\* download switch (lines 43-47, 57 and 65).
DefaultDisplayName == "MyBatchJob"
DefaultDescription == "Transcribe multiple audio files from a container"
DefaultLocale == "en-US"
JobDefaults ==
    /\ DISPLAY_NAME = DefaultDisplayName
    /\ DESCRIPTION = DefaultDescription
    /\ LOCALE = DefaultLocale
    /\ PHRASES = <<>>
    /\ DOWNLOAD_RESULTS = FALSE

\* No request issued, no local set.
LocalsInit ==
    /\ attempt = 0
    /\ response = NoResponse
    /\ ret = NoResponse
    /\ wait = 0
    /\ resp = NoCreateResponse
    /\ job_id = None
    /\ job = NoJob
    /\ waited = 0
    /\ interval = 0
    /\ main_job = NoJob
    /\ listing = NoListing
    /\ downloaded = <<>>
    /\ outcome = None
    /\ fetches = 0
    /\ seenTerminal = 0
    /\ requests = <<>>
    /\ slept = <<>>
    /\ exc = NoExc
    /\ exitcode = NotExited

FtInit ==
    /\ prog = "ft"
    /\ pc = "main"
    /\ ENTRA_ACCESS_TOKEN \in Tokens
    /\ SPEECH_KEY \in FtKeys
    /\ AUDIO_FILE_PATH \in Paths
    /\ isfile \in {f \in BOOLEAN : f => AUDIO_FILE_PATH # ""}
    /\ AUDIO_URL \in Urls
    /\ MAX_RETRIES \in 0..MaxRetriesBound
    /\ RETRY_BACKOFF_SECONDS \in BackoffBases
    /\ SPEECH_REGION = "eastus"
    /\ INPUT_CONTAINER_SAS_URL = ""
    /\ OUTPUT_CONTAINER_SAS_URL = ""
    /\ POLL_INTERVAL_SECONDS = 0
    /\ MAX_POLL_MINUTES = 0
    /\ BACKOFF_MULTIPLIER = <<1, 1>>
    /\ JobDefaults
    /\ LocalsInit

\* main, lines 249-258.
FtMain ==
    /\ prog = "ft" /\ pc = "main"
    /\ IF FtMainBranch = "exit"
       THEN /\ pc' = "exited"
            /\ exitcode' = "1"
       ELSE /\ pc' = FtMainBranch
            /\ UNCHANGED exitcode
    /\ UNCHANGED <<cfg, btLocals, attempt, response, ret, wait, requests, slept, exc>>

\* The part of transcribe_inline_file and transcribe_from_url before the
\* request: the precondition, then build_headers; attempt = 0 is line 140.
Prepare(missing, error, at) ==
    IF missing
    THEN /\ pc' = "raised"
         /\ exc' = Exc(error, at, <<>>)
         /\ UNCHANGED attempt
    ELSE IF FtBuildHeaders.raises
    THEN /\ pc' = "raised"
         /\ exc' = Exc("ValueError", "build_headers", <<>>)
         /\ UNCHANGED attempt
    ELSE /\ pc' = "post"
         /\ attempt' = 0
         /\ UNCHANGED exc

\* transcribe_inline_file, lines 195-214.
TranscribeInlineFile ==
    /\ prog = "ft" /\ pc = "transcribe_inline_file"
    /\ Prepare(AUDIO_FILE_PATH = "" \/ ~isfile, "FileNotFoundError", "transcribe_inline_file")
    /\ UNCHANGED <<cfg, btLocals, response, ret, wait, requests, slept, exitcode>>

\* transcribe_from_url, lines 223-240.
TranscribeFromUrl ==
    /\ prog = "ft" /\ pc = "transcribe_from_url"
    /\ Prepare(AUDIO_URL = "", "ValueError", "transcribe_from_url")
    /\ UNCHANGED <<cfg, btLocals, response, ret, wait, requests, slept, exitcode>>

\* post_with_retries, lines 142-158: one request and what follows its response,
\* up to the sleep or the return.
Post ==
    /\ prog = "ft" /\ pc = "post"
    /\ requests' = Append(requests, Request("transcribe", FtBuildHeaders.headers, None))
    /\ \E r \in Responses :
        LET got == [r EXCEPT !.serial = Len(requests) + 1] IN
        /\ response' = got
        /\ IF ~IsThrottled(got)
           THEN /\ pc' = "returned"
                /\ ret' = got
                /\ UNCHANGED <<attempt, wait>>
           ELSE /\ attempt' = attempt + 1
                /\ IF BudgetExhausted(attempt + 1)
                   THEN /\ pc' = "returned"
                        /\ ret' = got
                        /\ UNCHANGED wait
                   ELSE /\ pc' = "sleep"
                        /\ wait' = ComputeWait(got, attempt + 1)
                        /\ UNCHANGED ret
    /\ UNCHANGED <<cfg, btLocals, slept, exc, exitcode>>

\* requests.post fails with a transport error, which post_with_retries lets through.
PostFails ==
    /\ prog = "ft" /\ pc = "post"
    /\ requests' = Append(requests, Request("transcribe", FtBuildHeaders.headers, None))
    /\ pc' = "raised"
    /\ exc' = Exc("ConnectionError", "requests.post", <<>>)
    /\ UNCHANGED <<cfg, btLocals, attempt, response, ret, wait, slept, exitcode>>

\* post_with_retries, line 161: time.sleep(wait), then the loop's next round.
Sleep ==
    /\ prog = "ft" /\ pc = "sleep"
    /\ IF SleepRaises(wait)
       THEN /\ pc' = "raised"
            /\ exc' = Exc("ValueError", "time.sleep", <<>>)
            /\ UNCHANGED slept
       ELSE /\ pc' = "post"
            /\ slept' = Append(slept, wait)
            /\ UNCHANGED exc
    /\ UNCHANGED <<cfg, btLocals, attempt, response, ret, wait, requests, exitcode>>

\* The callers of post_with_retries, lines 216-221 and 242-247.
AfterPost ==
    /\ prog = "ft" /\ pc = "returned"
    /\ IF ~Ok(ret)
       THEN /\ pc' = "raised"
            /\ exc' = Exc("HTTPError", "raise_for_status", <<>>)
            /\ UNCHANGED exitcode
       ELSE /\ pc' = "exited"
            /\ exitcode' = "0"
            /\ UNCHANGED exc
    /\ UNCHANGED <<cfg, btLocals, attempt, response, ret, wait, requests, slept>>

FtNext ==
    \/ FtMain
    \/ TranscribeInlineFile
    \/ TranscribeFromUrl
    \/ Post
    \/ PostFails
    \/ Sleep
    \/ AfterPost

-----------------------------------------------------------------------------
(* bt_api.py                                                               *)

\* The fetches of one polling session the model follows (a session whose
\* interval is 0 never ends).
MaxPolls == 30

\* The placeholder defaults of bt_api.py.
BtKeyPlaceholder == "<your-speech-key>"
BtRegionPlaceholder == "<your-region>"

BtKeys == {"", BtKeyPlaceholder, "key"}
Regions == {BtRegionPlaceholder, "eastus"}
InputUrls == {"", "https://in?sas"}
OutputUrls == {"", "https://out?sas"}
PollIntervals == {-1, 0, 64, 900}
PollMinutes == {0, 5, 30}
Multipliers == {<<1, 1>>, <<3, 2>>, <<2, 1>>}

\* str.startswith("<") on the strings of the model.
StartsWithLt(s) == s \in {BtKeyPlaceholder, BtRegionPlaceholder, FtKeyPlaceholder}

\* The statuses a job record may carry in its status or state field.
StatusValues == {None, "NotStarted", "Running", "Succeeded", "Failed", "Cancelled"}
StateValues == {None, "Succeeded"}
JobRecords ==
    {[status |-> s, state |-> t, error |-> None, serial |-> 0] :
        s \in StatusValues, t \in StateValues}
    \cup {[status |-> s, state |-> None, error |-> "InvalidData", serial |-> 0] :
        s \in {"Failed", "Cancelled"}}
    \cup {[status |-> "succeeded", state |-> None, error |-> None, serial |-> 0]}

\* The terminal statuses of the job state machine.
TerminalStates == {"Succeeded", "Failed", "Cancelled"}

\* Python's  a or b  on optional strings.
Or(a, b) == IF Truthy(a) THEN a ELSE b

\* job.get("status") or job.get("state"), lines 181 and 217.
StatusOf(j) == Or(j.status, j.state)

\* A variant of JobSucceeded that takes every job that did not fail for succeeded.
JobNotFailed(j) == StatusOf(j) # "Failed"

\* main, lines 217 and 221: the job succeeded.
JobSucceeded(j) == StatusOf(j) = "Succeeded"

\* A variant of IsDone that takes the status in any letter case.
IsDoneAnyCase(st) == st \in {"Succeeded", "Failed", "Cancelled", "succeeded"}

\* Variants of IsDone that miss one terminal status.
IsDoneNoCancelled(st) == st \in {"Succeeded", "Failed"}
IsDoneNoFailed(st) == st \in {"Succeeded", "Cancelled"}

\* monitor_until_done, line 185: the status ends the polling.
IsDone(st) == st \in {"Succeeded", "Failed", "Cancelled"}

\* The cap of line 190.
Ceiling == 10 * 60

\* The deadline of line 179, in seconds.
Deadline == MAX_POLL_MINUTES * 60

Min(a, b) == IF a <= b THEN a ELSE b

\* interval * BACKOFF_MULTIPLIER; exact for the intervals of the model
\* (64 = 2^6 takes six factors of 3/2 before it passes the cap).
Times(i, m) == (i * m[1]) \div m[2]

\* monitor_until_done, line 190.
NextInterval(i) == Min(Times(i, BACKOFF_MULTIPLIER), Ceiling)

\* monitor_until_done, line 175: the interval of the first sleep.
FirstInterval == POLL_INTERVAL_SECONDS

\* A variant of WithinDeadline that polls once more at the deadline itself.
WithinDeadlineInclusive(w) == w <= Deadline

\* A variant of WithinDeadline that compares seconds with minutes.
WithinDeadlineMinutes(w) == w < MAX_POLL_MINUTES

\* monitor_until_done, line 179: the loop goes on.
WithinDeadline(w) == w < Deadline

\* A variant of BtHeaders that attaches the key beside the token.
BtHeadersBoth ==
    IF ENTRA_ACCESS_TOKEN # "" /\ SPEECH_KEY # "" /\ SPEECH_KEY # BtKeyPlaceholder
    THEN [raises |-> FALSE, headers |-> {"Authorization", "Ocp-Apim-Subscription-Key"}]
    ELSE IF ENTRA_ACCESS_TOKEN # ""
    THEN [raises |-> FALSE, headers |-> {"Authorization"}]
    ELSE IF SPEECH_KEY # "" /\ SPEECH_KEY # BtKeyPlaceholder
    THEN [raises |-> FALSE, headers |-> {"Ocp-Apim-Subscription-Key"}]
    ELSE [raises |-> TRUE, headers |-> {}]

\* headers(), lines 76-82: the authentication headers, or ValueError.
BtHeaders ==
    IF ENTRA_ACCESS_TOKEN # ""
    THEN [raises |-> FALSE, headers |-> {"Authorization"}]
    ELSE IF SPEECH_KEY # "" /\ SPEECH_KEY # BtKeyPlaceholder
    THEN [raises |-> FALSE, headers |-> {"Ocp-Apim-Subscription-Key"}]
    ELSE [raises |-> TRUE, headers |-> {}]

\* main, lines 196-204: the configuration that is missing.
BtMissing ==
    (IF SPEECH_REGION = "" \/ StartsWithLt(SPEECH_REGION) THEN {"SPEECH_REGION"} ELSE {})
    \cup (IF ~(ENTRA_ACCESS_TOKEN # "" \/ (SPEECH_KEY # "" /\ ~StartsWithLt(SPEECH_KEY)))
          THEN {"SPEECH_KEY or ENTRA_ACCESS_TOKEN"} ELSE {})
    \cup (IF INPUT_CONTAINER_SAS_URL = "" THEN {"INPUT_CONTAINER_SAS_URL"} ELSE {})
    \cup (IF OUTPUT_CONTAINER_SAS_URL = "" THEN {"OUTPUT_CONTAINER_SAS_URL"} ELSE {})

\* A variant of CreateBody that swaps the two container URLs.
CreateBodySwapped ==
    [members |-> << <<"displayName", DISPLAY_NAME>>,
                    <<"description", DESCRIPTION>>,
                    <<"locale", LOCALE>>,
                    <<"recordingsUrl", OUTPUT_CONTAINER_SAS_URL>>,
                    <<"resultsContainerUrl", INPUT_CONTAINER_SAS_URL>> >>,
     properties |->
        IF PHRASES # <<>>
        THEN [present |-> TRUE, wordLevelTimestampsEnabled |-> TRUE, diagnosticMode |-> FALSE,
              profanityFilterMode |-> "Masked", punctuationMode |-> "DictatedAndAutomatic",
              speechRecognitionPhrases |-> PHRASES]
        ELSE [present |-> FALSE, wordLevelTimestampsEnabled |-> FALSE, diagnosticMode |-> FALSE,
              profanityFilterMode |-> "", punctuationMode |-> "",
              speechRecognitionPhrases |-> <<>>]]

\* create_body, lines 84-107: the dict, its string members in insertion order
\* and the properties object that is added for a non-empty phrase list.
CreateBody ==
    [members |-> << <<"displayName", DISPLAY_NAME>>,
                    <<"description", DESCRIPTION>>,
                    <<"locale", LOCALE>>,
                    <<"recordingsUrl", INPUT_CONTAINER_SAS_URL>>,
                    <<"resultsContainerUrl", OUTPUT_CONTAINER_SAS_URL>> >>,
     properties |->
        IF PHRASES # <<>>
        THEN [present |-> TRUE, wordLevelTimestampsEnabled |-> TRUE, diagnosticMode |-> FALSE,
              profanityFilterMode |-> "Masked", punctuationMode |-> "DictatedAndAutomatic",
              speechRecognitionPhrases |-> PHRASES]
        ELSE [present |-> FALSE, wordLevelTimestampsEnabled |-> FALSE, diagnosticMode |-> FALSE,
              profanityFilterMode |-> "", punctuationMode |-> "",
              speechRecognitionPhrases |-> <<>>]]

\* requests.post(..., json=body), line 113: the body as JSON on the wire,
\* every key and every string as the text json.dumps writes for it.
JsonDumps(body) ==
    [members |->
        [i \in DOMAIN body.members |->
            <<JsonEscape(Chars(body.members[i][1])), JsonEscape(Chars(body.members[i][2]))>>],
     properties |->
        [body.properties EXCEPT
            !.profanityFilterMode = JsonEscape(Chars(@)),
            !.punctuationMode = JsonEscape(Chars(@)),
            !.speechRecognitionPhrases =
                [i \in DOMAIN @ |-> JsonEscape(Chars(@[i]))]]]

\* The responses to the job creation request.
Locations == {None, "https://h/batchtranscriptions/J3?api-version=v", "https://h"}
CreateResponses ==
    {[status_code |-> 201, id |-> i, self |-> f, Location |-> l] :
        i \in {None, "", "J1"}, f \in {None, "", "https://h/batchtranscriptions/J2"}, l \in Locations}
    \cup {[status_code |-> 401, id |-> None, self |-> None, Location |-> None]}

\* urllib.parse.urlparse(loc).path.rstrip("/").split("/")[-1] on the
\* Location values of the model.
LastPathPart(loc) ==
    CASE loc = "https://h/batchtranscriptions/J3?api-version=v" -> "J3"
      [] OTHER -> ""

\* A variant of ExtractJobId that looks at the self field before the id field.
ExtractJobIdSelfFirst(r) ==
    LET first == Or(Or(r.self, r.id), "") IN
    IF first # "" THEN first
    ELSE IF Truthy(r.Location) THEN LastPathPart(r.Location)
    ELSE ""

\* submit_job, lines 116-127: the identifier taken from the response ("" for none).
ExtractJobId(r) ==
    LET first == Or(Or(r.id, r.self), "") IN
    IF first # "" THEN first
    ELSE IF Truthy(r.Location) THEN LastPathPart(r.Location)
    ELSE ""

\* The kinds a listed file may carry (None: the kind is null).
Kinds == {None, "", "Transcription", "TranscriptionReport", "RESULT", "Log"}

\* The entries of a file listing: name, kind, and the three fields that may
\* hold the locator (links is the contentUrl of the links object).
FileRecords ==
    {[name |-> "a.json", kind |-> k, links |-> l, contentUrl |-> None, url |-> None] :
        k \in Kinds, l \in {None, "https://blob/a"}}
    \cup {[name |-> "b.json", kind |-> k, links |-> "https://blob/a",
            contentUrl |-> None, url |-> None] : k \in {"Transcription", "Log"}}
    \cup {[name |-> "a.json", kind |-> "Transcription", links |-> None,
            contentUrl |-> c, url |-> u] :
            c \in {None, "https://blob/c"}, u \in {"", "https://blob/u"}}

\* The responses to the file listing request: the payload's values and files fields.
FileLists ==
    {NoList, [present |-> TRUE, items |-> <<>>]}
    \cup {[present |-> TRUE, items |-> <<f>>] : f \in FileRecords}
    \cup {[present |-> TRUE, items |->
            << [name |-> "l.txt", kind |-> "Log", links |-> "https://blob/l",
                contentUrl |-> None, url |-> None],
               [name |-> "a.json", kind |-> "Transcription", links |-> "https://blob/a",
                contentUrl |-> None, url |-> None],
               [name |-> "r.json", kind |-> "RESULT", links |-> None,
                contentUrl |-> None, url |-> "https://blob/r"] >>]}
ListResponses ==
    {[status_code |-> 200, values |-> v, files |-> NoList] : v \in FileLists}
    \cup {[status_code |-> 200, values |-> v, files |-> f] :
            v \in {NoList, [present |-> TRUE, items |-> <<>>]},
            f \in {[present |-> TRUE, items |-> <<>>],
                   [present |-> TRUE, items |->
                        << [name |-> "a.json", kind |-> "Transcription",
                            links |-> "https://blob/a", contentUrl |-> None, url |-> None] >>]}}
    \cup {[status_code |-> c, values |-> NoList, files |-> NoList] : c \in {429, 500}}

\* Python truthiness of an optional list.
TruthyList(l) == l.present /\ l.items # <<>>

\* main, line 228.
FilesOf(p) ==
    IF TruthyList(p.values) THEN p.values.items
    ELSE IF TruthyList(p.files) THEN p.files.items
    ELSE <<>>

\* main, line 240: the locator of a listed file.
UrlOf(f) == Or(Or(f.links, f.contentUrl), f.url)

\* A variant of KindMatches that does not lower-case the kind.
KindMatchesCaseSensitive(k) ==
    \/ Contains(Chars(Or(k, "")), Chars("transcription"))
    \/ Contains(Chars(Or(k, "")), Chars("result"))

\* main, line 243: the test on the kind.
KindMatches(k) ==
    \/ Contains(Lower(Chars(Or(k, ""))), Chars("transcription"))
    \/ Contains(Lower(Chars(Or(k, ""))), Chars("result"))

\* main, line 243: the file is downloaded.
Marked(f) == DOWNLOAD_RESULTS /\ Truthy(UrlOf(f)) /\ KindMatches(f.kind)

\* main, lines 236-244: the locators passed to download_file, in order.
RECURSIVE ToDownload(_)
ToDownload(files) ==
    IF files = <<>> THEN <<>>
    ELSE (IF Marked(Head(files)) THEN <<UrlOf(Head(files))>> ELSE <<>>)
         \o ToDownload(Tail(files))

\* download_file, line 159: one GET per downloaded file, with no credential header.
RECURSIVE DownloadRequests(_)
DownloadRequests(n) ==
    IF n = 0 THEN <<>> ELSE <<Request("download", {}, None)>> \o DownloadRequests(n - 1)

\* A variant of ListRaises that never checks the response.
ListNeverRaises(r) == FALSE

\* list_files, lines 151-153: the response makes list_files raise.
ListRaises(r) == ~Ok(r)

BtInit ==
    /\ prog = "bt"
    /\ pc = "main"
    /\ ENTRA_ACCESS_TOKEN \in Tokens
    /\ SPEECH_KEY \in BtKeys
    /\ AUDIO_FILE_PATH = ""
    /\ isfile = FALSE
    /\ AUDIO_URL = ""
    /\ MAX_RETRIES = 0
    /\ RETRY_BACKOFF_SECONDS = 1
    /\ SPEECH_REGION \in Regions
    /\ INPUT_CONTAINER_SAS_URL \in InputUrls
    /\ OUTPUT_CONTAINER_SAS_URL \in OutputUrls
    /\ POLL_INTERVAL_SECONDS \in PollIntervals
    /\ MAX_POLL_MINUTES \in PollMinutes
    /\ BACKOFF_MULTIPLIER \in Multipliers
    /\ JobDefaults
    /\ LocalsInit

\* main, lines 194-209: the validation.
BtMain ==
    /\ prog = "bt" /\ pc = "main"
    /\ IF BtMissing # {}
       THEN /\ pc' = "exited"
            /\ exitcode' = "1"
       ELSE /\ pc' = "submit_job"
            /\ UNCHANGED exitcode
    /\ UNCHANGED <<cfg, ftLocals, btLocals, requests, slept, exc>>

\* submit_job, lines 109-114: the creation request and its answer.
SubmitJob ==
    /\ prog = "bt" /\ pc = "submit_job"
    /\ IF BtHeaders.raises
       THEN /\ pc' = "raised"
            /\ exc' = Exc("ValueError", "headers", <<>>)
            /\ UNCHANGED <<resp, requests>>
       ELSE /\ requests' = Append(requests,
                    [Request("create", BtHeaders.headers, None) EXCEPT
                        !.json = JsonDumps(CreateBody)])
            /\ \E r \in CreateResponses :
                /\ resp' = r
                /\ IF ~Ok(r)
                   THEN /\ pc' = "raised"
                        /\ exc' = Exc("HTTPError", "raise_for_status", <<>>)
                   ELSE /\ pc' = "job_id"
                        /\ UNCHANGED exc
    /\ UNCHANGED <<cfg, ftLocals, job_id, job, waited, interval, main_job, listing, downloaded,
                   outcome, fetches, seenTerminal, slept, exitcode>>

\* submit_job, lines 116-133: the identifier is taken from the answer and
\* returned (resp goes out of scope); then the first lines of
\* monitor_until_done (173-175).
DeriveJobId ==
    /\ prog = "bt" /\ pc = "job_id"
    /\ IF ExtractJobId(resp) = ""
       THEN /\ pc' = "raised"
            /\ exc' = Exc("RuntimeError", "submit_job", <<>>)
            /\ UNCHANGED <<resp, job_id, waited, interval>>
       ELSE /\ pc' = "while"
            /\ job_id' = ExtractJobId(resp)
            /\ resp' = NoCreateResponse
            /\ waited' = 0
            /\ interval' = FirstInterval
            /\ UNCHANGED exc
    /\ UNCHANGED <<cfg, ftLocals, job, main_job, listing, downloaded, outcome, fetches,
                   seenTerminal, requests, slept, exitcode>>

\* monitor_until_done, line 179 (the loop test) and line 192 (the timeout).
LoopTest ==
    /\ prog = "bt" /\ pc = "while"
    /\ IF WithinDeadline(waited)
       THEN /\ pc' = "get_job"
            /\ UNCHANGED exc
       ELSE /\ pc' = "raised"
            /\ exc' = Exc("TimeoutError", "monitor_until_done", <<job_id, MAX_POLL_MINUTES>>)
    /\ UNCHANGED <<cfg, ftLocals, btLocals, requests, slept, exitcode>>

\* monitor_until_done, lines 180-186: one status fetch that is answered, and
\* the return on a terminal status.
GetJob ==
    /\ prog = "bt" /\ pc = "get_job"
    /\ fetches < MaxPolls
    /\ requests' = Append(requests, Request("get_job", BtHeaders.headers, job_id))
    /\ fetches' = fetches + 1
    /\ \E j \in JobRecords :
        LET got == [j EXCEPT !.serial = fetches + 1] IN
        /\ job' = got
        /\ seenTerminal' = seenTerminal + (IF StatusOf(got) \in TerminalStates THEN 1 ELSE 0)
        /\ IF IsDone(StatusOf(got))
           THEN /\ pc' = "monitor_returned"
                /\ main_job' = got
           ELSE /\ pc' = "sleep"
                /\ UNCHANGED main_job
    /\ UNCHANGED <<cfg, ftLocals, resp, job_id, waited, interval, listing, downloaded, outcome,
                   slept, exc, exitcode>>

\* A variant of GetJobFails that leaves the job identifier out of the fetch.
GetJobFailsWithoutId ==
    /\ prog = "bt" /\ pc = "get_job"
    /\ fetches < MaxPolls
    /\ requests' = Append(requests, Request("get_job", BtHeaders.headers, None))
    /\ \E c \in {429, 500} :
        /\ pc' = "raised"
        /\ exc' = Exc("HTTPError", "raise_for_status", <<c>>)
    /\ UNCHANGED <<cfg, ftLocals, btLocals, slept, exitcode>>

\* A variant of GetJobFails that takes a 429 for a reason to poll again later.
GetJobThrottledRetries ==
    /\ prog = "bt" /\ pc = "get_job"
    /\ fetches < MaxPolls
    /\ requests' = Append(requests, Request("get_job", BtHeaders.headers, job_id))
    /\ \E c \in {429, 500} :
        IF c = 429
        THEN /\ pc' = "sleep"
             /\ UNCHANGED exc
        ELSE /\ pc' = "raised"
             /\ exc' = Exc("HTTPError", "raise_for_status", <<c>>)
    /\ UNCHANGED <<cfg, ftLocals, btLocals, slept, exitcode>>

\* get_job, lines 137-140: the status fetch is answered with an error status.
GetJobFails ==
    /\ prog = "bt" /\ pc = "get_job"
    /\ fetches < MaxPolls
    /\ requests' = Append(requests, Request("get_job", BtHeaders.headers, job_id))
    /\ \E c \in {429, 500} :
        /\ pc' = "raised"
        /\ exc' = Exc("HTTPError", "raise_for_status", <<c>>)
    /\ UNCHANGED <<cfg, ftLocals, btLocals, slept, exitcode>>

\* monitor_until_done, lines 188-190.
PollSleep ==
    /\ prog = "bt" /\ pc = "sleep"
    /\ IF SleepRaises(interval)
       THEN /\ pc' = "raised"
            /\ exc' = Exc("ValueError", "time.sleep", <<>>)
            /\ UNCHANGED <<slept, waited, interval>>
       ELSE /\ pc' = "while"
            /\ slept' = Append(slept, interval)
            /\ waited' = waited + interval
            /\ interval' = NextInterval(interval)
            /\ UNCHANGED exc
    /\ UNCHANGED <<cfg, ftLocals, resp, job_id, job, main_job, listing, downloaded, outcome,
                   fetches, seenTerminal, requests, exitcode>>

\* main, lines 217-223: a job that did not succeed.
NotSucceeded ==
    /\ prog = "bt" /\ pc = "monitor_returned"
    /\ ~JobSucceeded(main_job)
    /\ pc' = "exited"
    /\ exitcode' = "2"
    /\ outcome' = "Job did not succeed"
    /\ UNCHANGED <<cfg, ftLocals, resp, job_id, job, waited, interval, main_job, listing,
                   downloaded, fetches, seenTerminal, requests, slept, exc>>

\* main, lines 225-246, with list_files and download_file: the listing of a
\* succeeded job and the downloads; refused, when it is not 0, is the
\* download that download_file's raise_for_status refuses.
ListFiles ==
    /\ prog = "bt" /\ pc = "monitor_returned"
    /\ JobSucceeded(main_job)
    /\ \E r \in ListResponses :
        /\ listing' = r
        /\ IF ListRaises(r)
           THEN /\ pc' = "raised"
                /\ exc' = Exc("HTTPError", "raise_for_status", <<r.status_code>>)
                /\ requests' = Append(requests, Request("list_files", BtHeaders.headers, job_id))
                /\ UNCHANGED <<downloaded, outcome, exitcode>>
           ELSE \E refused \in 0..Len(ToDownload(FilesOf(r))) :
                LET urls == ToDownload(FilesOf(r)) IN
                IF refused = 0
                THEN /\ pc' = "exited"
                     /\ exitcode' = "0"
                     /\ outcome' = IF FilesOf(r) = <<>> THEN "No files listed" ELSE "Done"
                     /\ requests' =
                            Append(requests, Request("list_files", BtHeaders.headers, job_id))
                            \o DownloadRequests(Len(urls))
                     /\ downloaded' = urls
                     /\ UNCHANGED exc
                ELSE /\ pc' = "raised"
                     /\ exc' = Exc("HTTPError", "download_file", <<>>)
                     /\ requests' =
                            Append(requests, Request("list_files", BtHeaders.headers, job_id))
                            \o DownloadRequests(refused)
                     /\ downloaded' = SubSeq(urls, 1, refused - 1)
                     /\ UNCHANGED <<outcome, exitcode>>
    /\ UNCHANGED <<cfg, ftLocals, resp, job_id, job, waited, interval, main_job, fetches,
                   seenTerminal, slept>>

BtNext ==
    \/ BtMain
    \/ SubmitJob
    \/ DeriveJobId
    \/ LoopTest
    \/ GetJob
    \/ GetJobFails
    \/ PollSleep
    \/ NotSucceeded
    \/ ListFiles

\* The batch pipeline under one polling configuration, with the job metadata,
\* the phrase list and the download switch of the model.
DisplayNames == {DefaultDisplayName, "say \"hi\"", "a\\b"}
Locales == {DefaultLocale, "fil-PH"}
PhraseLists == {<<>>, <<"Contoso">>}

JobInit ==
    /\ prog = "bt"
    /\ pc = "main"
    /\ ENTRA_ACCESS_TOKEN = "tok"
    /\ SPEECH_KEY = ""
    /\ AUDIO_FILE_PATH = ""
    /\ isfile = FALSE
    /\ AUDIO_URL = ""
    /\ MAX_RETRIES = 0
    /\ RETRY_BACKOFF_SECONDS = 1
    /\ SPEECH_REGION = "eastus"
    /\ INPUT_CONTAINER_SAS_URL \in InputUrls
    /\ OUTPUT_CONTAINER_SAS_URL \in OutputUrls
    /\ POLL_INTERVAL_SECONDS = 64
    /\ MAX_POLL_MINUTES = 5
    /\ BACKOFF_MULTIPLIER = <<2, 1>>
    /\ DISPLAY_NAME \in DisplayNames
    /\ DESCRIPTION = DefaultDescription
    /\ LOCALE \in Locales
    /\ PHRASES \in PhraseLists
    /\ DOWNLOAD_RESULTS \in BOOLEAN
    /\ LocalsInit

-----------------------------------------------------------------------------
Init == FtInit \/ BtInit \/ JobInit
Next == FtNext \/ BtNext
Spec == Init /\ [][Next]_vars

-----------------------------------------------------------------------------
(* The claims.                                                             *)

\* How many requests of the log went to one call of the service.
CountApi(api) == Cardinality({i \in DOMAIN requests : requests[i].api = api})

\* The run is one of the executor, in the synchronous pipeline.
InExecutor == prog = "ft"

\* C1, as stated: with MAX_RETRIES = N >= 1, one call of post_with_retries
\* issues at most N HTTP requests.
C1_AtMostNRequests ==
    (InExecutor /\ MAX_RETRIES >= 1) => Len(requests) <= MAX_RETRIES

\* C1, amended: with MAX_RETRIES = N, one call of post_with_retries issues at
\* most N + 1 HTTP requests (the first one and N retries), whatever the
\* responses are.
C1_AtMostNPlusOneRequests ==
    InExecutor => Len(requests) <= MAX_RETRIES + 1

\* C1's case: the service answered 429 to all N + 1 requests and the call ended.
C1_Witness ==
    /\ InExecutor /\ MAX_RETRIES >= 2
    /\ Len(requests) = MAX_RETRIES + 1
    /\ pc = "returned" /\ ret.status_code = 429

\* The duration a Retry-After hint stands for when it is a valid non-negative
\* duration, and -1 when it is missing or is none.
HintDuration(h) ==
    CASE h = "0" -> 0
      [] h = "5" -> 5
      [] OTHER   -> -1

\* C2, as stated: before retry k the executor waits the Retry-After value when
\* it is a valid non-negative duration and RETRY_BACKOFF_SECONDS * 2^(k-1)
\* otherwise, and no hint makes the executor raise.
C2_HintHonoredOrFallback ==
    InExecutor =>
        /\ pc = "sleep" =>
              wait = IF HintDuration(response.retry_after) >= 0
                     THEN HintDuration(response.retry_after)
                     ELSE RETRY_BACKOFF_SECONDS * Pow2(attempt - 1)
        /\ exc.at # "time.sleep"

\* C3, as stated: no interval the poller sleeps for exceeds the ceiling of
\* 600 seconds, the first one included.
C3_EverySleepWithinCeiling ==
    prog = "bt" => \A n \in DOMAIN slept : slept[n] <= 600

\* C4: a terminal status observed at fetch k+1, after k non-terminal ones, is
\* returned at once: monitor_until_done returns the record of that very fetch,
\* after exactly k+1 status fetches and k sleeps; and it returns nothing else.
C4_ReturnsAtFirstTerminal ==
    prog = "bt" =>
        /\ seenTerminal >= 1 =>
              /\ main_job = job
              /\ pc \in {"monitor_returned", "exited", "raised"}
        /\ main_job # NoJob =>
              /\ main_job = job
              /\ main_job.serial = fetches
              /\ StatusOf(main_job) \in TerminalStates
              /\ seenTerminal = 1
              /\ fetches = Len(slept) + 1
              /\ CountApi("get_job") = fetches

\* C4's case: Running (or another non-terminal status) three times, Succeeded
\* on the fourth fetch.
C4_Witness ==
    /\ prog = "bt" /\ pc = "monitor_returned"
    /\ fetches = 4 /\ Len(slept) = 3
    /\ StatusOf(main_job) = "Succeeded"

\* C5, as stated: the timeout error names the polled job and reports the total
\* elapsed wait, which is at least the deadline.
C5_TimeoutReportsElapsed ==
    (prog = "bt" /\ exc.type = "TimeoutError") =>
        /\ exc.args[1] = job_id
        /\ exc.args[2] * 60 = waited
        /\ waited >= MAX_POLL_MINUTES * 60

\* C5, amended: a session whose fetches all returned a non-terminal status
\* never returns normally; when it raises TimeoutError, the error names the
\* polled job and the configured MAX_POLL_MINUTES (not the elapsed wait), and
\* the accumulated wait is then at least MAX_POLL_MINUTES * 60.
C5_TimeoutReportsLimit ==
    prog = "bt" =>
        /\ seenTerminal = 0 => main_job = NoJob
        /\ exc.type = "TimeoutError" =>
              /\ job_id # None
              /\ exc.args = <<job_id, MAX_POLL_MINUTES>>
              /\ waited >= MAX_POLL_MINUTES * 60
              /\ seenTerminal = 0
              /\ main_job = NoJob
              /\ pc = "raised"

\* C5's case: a timeout after several non-terminal fetches, the wait past the deadline.
C5_Witness ==
    /\ prog = "bt" /\ exc.type = "TimeoutError"
    /\ fetches >= 2 /\ seenTerminal = 0
    /\ waited > MAX_POLL_MINUTES * 60

\* The listing answered, and its payload names no file.
ListedNothing ==
    /\ listing.status_code = 200
    /\ ~(listing.values.present /\ listing.values.items # <<>>)
    /\ ~(listing.files.present /\ listing.files.items # <<>>)

\* C6: an empty listing of a succeeded job ends the run successfully with no
\* artifact and no error; a failing listing call ends it with an error and is
\* never reported as an empty list.
C6_EmptyListingIsNotAnError ==
    (prog = "bt" /\ listing # NoListing) =>
        /\ ListedNothing =>
              /\ outcome = "No files listed"
              /\ exc = NoExc
              /\ exitcode = "0"
        /\ listing.status_code >= 400 =>
              /\ outcome = None
              /\ exc.type = "HTTPError"
              /\ exitcode = NotExited
              /\ pc = "raised"

\* C6's case: the listing call succeeded with an empty list.
C6_Witness ==
    /\ prog = "bt" /\ StatusOf(main_job) = "Succeeded"
    /\ listing.status_code = 200
    /\ listing.values = [present |-> TRUE, items |-> <<>>]
    /\ outcome = "No files listed"

\* Both audio sources are configured; none is.
BothSources == AUDIO_FILE_PATH # "" /\ isfile /\ AUDIO_URL # ""
NoSource == ~(AUDIO_FILE_PATH # "" /\ isfile) /\ AUDIO_URL = ""

\* C7, as stated: with both sources or with none, no HTTP request is ever
\* issued and the run cannot end successfully.
C7_BothOrNoneRejected ==
    (prog = "ft" /\ (BothSources \/ NoSource)) =>
        /\ requests = <<>>
        /\ exitcode # "0"

\* C7, amended: with no source the run ends with exit status 1 and issues no
\* HTTP request; with both sources no precondition error is reported: the
\* inline file is used and the URL is ignored.
C7_NoneRejectedFilePreferred ==
    prog = "ft" =>
        /\ NoSource =>
              /\ requests = <<>>
              /\ exc = NoExc
              /\ pc \in {"main", "exited"}
              /\ pc = "exited" => exitcode = "1"
        /\ BothSources =>
              /\ pc # "transcribe_from_url"
              /\ exitcode # "1"
              /\ exc.at \notin {"transcribe_inline_file", "transcribe_from_url"}

\* C7's case: both sources configured, and the inline upload was requested.
C7_Witness ==
    /\ prog = "ft" /\ BothSources
    /\ Len(requests) >= 1
    /\ exitcode = "0"

\* C8: once the retry budget is spent on a 429, post_with_retries has returned
\* the response of its last request, a 429, and raised nothing.
C8_ExhaustedReturnsLastResponse ==
    (InExecutor /\ attempt > MAX_RETRIES) =>
        /\ ret = response
        /\ ret.status_code = 429
        /\ ret.serial = Len(requests)
        /\ pc \in {"returned", "raised"}
        /\ exc \in {NoExc, Exc("HTTPError", "raise_for_status", <<>>)}

\* C8's case: retries were made, and the last of them was throttled too.
C8_Witness ==
    /\ InExecutor /\ MAX_RETRIES >= 1
    /\ attempt > MAX_RETRIES
    /\ pc = "returned"
    /\ Len(slept) = MAX_RETRIES

\* C9: a response that is not a 429 is returned at once: it is the response of
\* the last request issued, no sleep follows it, and every sleep made was for
\* an earlier 429.
C9_OtherResponsesReturnedAtOnce ==
    (InExecutor /\ response.status_code \notin {0, 429}) =>
        /\ ret = response
        /\ response.serial = Len(requests)
        /\ Len(slept) = Len(requests) - 1
        /\ attempt = Len(slept)
        /\ pc \in {"returned", "exited", "raised"}
        /\ exc.at \notin {"time.sleep", "requests.post"}

\* C9's case: a server error received on a retry.
C9_Witness ==
    /\ InExecutor /\ pc = "returned"
    /\ response.status_code = 500
    /\ attempt >= 1

\* C10: after a status fetch observed Succeeded, Failed or Cancelled, no step
\* of the run sleeps or fetches the status again.
C10_NothingAfterTerminal ==
    [][(prog = "bt" /\ seenTerminal >= 1) =>
          /\ fetches' = fetches
          /\ slept' = slept
          /\ CountApi("get_job")' = CountApi("get_job")
          /\ main_job' = main_job]_vars

\* C10's case: a terminal status observed after earlier polls, and the run went on to its end.
C10_Witness ==
    /\ prog = "bt" /\ pc = "exited"
    /\ seenTerminal = 1 /\ fetches >= 2
    /\ StatusOf(job) = "Cancelled"

\* The calls that go to the speech service.
ServiceApis == {"transcribe", "create", "get_job", "list_files"}

\* A bearer token is configured; a subscription key that is no placeholder is.
HasToken == ENTRA_ACCESS_TOKEN # ""
HasRealKey == SPEECH_KEY \notin {"", FtKeyPlaceholder, BtKeyPlaceholder}

\* C11, as stated: every outgoing request carries exactly one credential
\* header.
C11_EveryRequestOneCredential ==
    \A i \in DOMAIN requests :
        /\ Cardinality(requests[i].auth) = 1
        /\ requests[i].auth \subseteq {"Authorization", "Ocp-Apim-Subscription-Key"}

\* C11, amended: every request to the speech service carries exactly one
\* credential header, the bearer token when one is configured and the
\* subscription key otherwise, and the download of a result file carries
\* none; with neither credential configured no request is ever issued and the
\* run ends with a configuration error (ValueError of build_headers, or exit 1).
C11_ExactlyOneCredential ==
    /\ \A i \in DOMAIN requests :
          /\ requests[i].api \in ServiceApis \cup {"download"}
          /\ requests[i].api \in ServiceApis =>
                /\ Cardinality(requests[i].auth) = 1
                /\ requests[i].auth = IF HasToken THEN {"Authorization"}
                                      ELSE {"Ocp-Apim-Subscription-Key"}
          /\ requests[i].api = "download" => requests[i].auth = {}
    /\ (~HasToken /\ ~HasRealKey) =>
          /\ requests = <<>>
          /\ exitcode # "0"
          /\ pc \in {"raised", "exited"} =>
                \/ exitcode = "1"
                \/ exc = Exc("ValueError", "build_headers", <<>>)

\* C11's case: the calls to the service went out with the bearer token and
\* two result files were downloaded after them.
C11_Witness ==
    /\ prog = "bt" /\ HasToken
    /\ CountApi("download") = 2
    /\ requests[1].api = "create" /\ requests[1].auth = {"Authorization"}
    /\ requests[Len(requests)].api = "download" /\ requests[Len(requests)].auth = {}

\* C12, as stated: with MAX_RETRIES >= 1, the attempt counter of
\* post_with_retries never exceeds MAX_RETRIES.
C12_AttemptWithinMax ==
    (InExecutor /\ MAX_RETRIES >= 1) => attempt <= MAX_RETRIES

\* C12, amended: the attempt counter never exceeds MAX_RETRIES + 1, it is at
\* most MAX_RETRIES while the call is still running, and when it reaches
\* MAX_RETRIES + 1 the call has returned; a call that has not ended can
\* always take its next step.
C12_AttemptWithinMaxPlusOne ==
    InExecutor =>
        /\ attempt <= MAX_RETRIES + 1
        /\ pc \in {"post", "sleep"} => attempt <= MAX_RETRIES
        /\ attempt = MAX_RETRIES + 1 => ret = response /\ ret.status_code = 429
        /\ pc \notin {"exited", "raised"} => ENABLED Next

\* C12's case: the counter passed MAX_RETRIES and the caller saw the last 429.
C12_Witness ==
    /\ InExecutor /\ MAX_RETRIES >= 1
    /\ attempt = MAX_RETRIES + 1
    /\ pc = "raised" /\ exc.type = "HTTPError"

\* C13, as stated: within one polling session every interval slept is at
\* least the one slept before it.
C13_IntervalsNonDecreasing ==
    prog = "bt" => \A n \in DOMAIN slept : n > 1 => slept[n - 1] <= slept[n]

\* C14, as stated: every duration the executor sleeps is strictly positive,
\* and no wait makes the sleep fail.
C14_SleepsStrictlyPositive ==
    InExecutor =>
        /\ \A n \in DOMAIN slept : slept[n] > 0
        /\ exc.at # "time.sleep"

\* A status fetch was answered with an error status, which ended the session.
StatusFetchRefused ==
    /\ prog = "bt" /\ exc.type = "HTTPError"
    /\ job_id # None /\ listing = NoListing

\* C15, as stated: a status fetch answered with 429 does not end the polling
\* session with an error.
C15_ThrottledFetchTolerated ==
    ~(StatusFetchRefused /\ exc.args = <<429>>)

\* C15, amended: a status fetch is one request, never retried: a fetch
\* answered with an error status (429 included) raises HTTPError, which ends
\* the polling session at once.
C15_ThrottledFetchEndsSession ==
    prog = "bt" =>
        /\ CountApi("get_job") \in {fetches, fetches + 1}
        /\ CountApi("get_job") = fetches + 1 <=> StatusFetchRefused
        /\ StatusFetchRefused =>
              /\ pc = "raised"
              /\ main_job = NoJob
              /\ exc.args \in {<<429>>, <<500>>}
              /\ requests[Len(requests)].api = "get_job"

\* C15's case: a 429 on a later status fetch.
C15_Witness ==
    /\ StatusFetchRefused /\ exc.args = <<429>>
    /\ fetches >= 2

\* The reason a Failed outcome would carry: the record's diagnostic, or
\* "unspecified".
ReasonOf(j) == IF j.error # None THEN j.error ELSE "unspecified"

\* main resolved a job that monitor_until_done returned as Failed or Cancelled.
ResolvedUnsuccessful ==
    /\ prog = "bt" /\ pc = "exited"
    /\ main_job # NoJob
    /\ StatusOf(main_job) \in {"Failed", "Cancelled"}

\* C16, as stated: resolving a Failed or Cancelled job yields an outcome that
\* carries the reason of the job record, or "unspecified", and makes no
\* listing call.
C16_FailedCarriesReason ==
    ResolvedUnsuccessful =>
        /\ outcome = ReasonOf(main_job)
        /\ CountApi("list_files") = 0

\* C16, amended: resolving a Failed or Cancelled job ends the run with exit
\* status 2 and the fixed report "Job did not succeed", whatever the record's
\* diagnostic is, and makes no listing call; a listing call is made only for
\* a Succeeded job.
C16_FailedExitsTwoWithoutListing ==
    prog = "bt" =>
        /\ ResolvedUnsuccessful =>
              /\ exitcode = "2"
              /\ outcome = "Job did not succeed"
              /\ exc = NoExc
              /\ CountApi("list_files") = 0
              /\ listing = NoListing
        /\ CountApi("list_files") <= 1
        /\ CountApi("list_files") = 1 => StatusOf(main_job) = "Succeeded"

\* C16's case: a Failed job whose record carries a diagnostic was resolved.
C16_Witness ==
    /\ ResolvedUnsuccessful
    /\ StatusOf(main_job) = "Failed"
    /\ main_job.error = "InvalidData"
    /\ exitcode = "2"

\* The polling session ended with the timeout of monitor_until_done.
TimedOut == prog = "bt" /\ exc.type = "TimeoutError"

\* C19, as stated: every sleep is followed by one more status fetch before a
\* timeout is reported.
C19_FetchAfterFinalSleep ==
    (TimedOut /\ Len(slept) >= 1) => fetches = Len(slept) + 1

\* C19, amended: the deadline is tested at the top of the loop, before every
\* status fetch and after the sleep of the iteration before; at a timeout
\* every status fetch was followed by a sleep, so the final sleep is followed
\* by no further fetch.
C19_DeadlineTestedBeforeFetch ==
    prog = "bt" =>
        /\ Len(slept) <= fetches /\ fetches <= Len(slept) + 1
        /\ pc = "get_job" => waited < Deadline /\ fetches = Len(slept)
        /\ TimedOut =>
              /\ waited >= Deadline
              /\ fetches = Len(slept)
              /\ CountApi("get_job") = fetches
              /\ fetches >= 1 =>
                    /\ requests[Len(requests)].api = "get_job"
                    /\ ~IsDone(StatusOf(job))

\* C19's case: a timeout right after the third sleep, with three fetches made.
C19_Witness ==
    /\ TimedOut
    /\ Len(slept) = 3 /\ fetches = 3
    /\ waited - slept[3] < Deadline

\* The string that has these characters (None when the model has none).
FromChars(cs) ==
    IF \E t \in Texts : Chars(t) = cs THEN CHOOSE t \in Texts : Chars(t) = cs ELSE None

\* Reading the text of a JSON string back (json.loads).
RECURSIVE JsonUnescape(_)
JsonUnescape(cs) ==
    IF cs = <<>> THEN <<>>
    ELSE IF Head(cs) = "\\" /\ Len(cs) >= 2
    THEN <<cs[2]>> \o JsonUnescape(SubSeq(cs, 3, Len(cs)))
    ELSE <<Head(cs)>> \o JsonUnescape(Tail(cs))

\* Reading a JSON payload back and looking a string member up: the value of
\* the last member with that key, or None.
JsonMember(json, key) ==
    LET hits == {i \in DOMAIN json.members : JsonUnescape(json.members[i][1]) = Chars(key)} IN
    IF hits = {} THEN None
    ELSE FromChars(JsonUnescape(
            json.members[CHOOSE i \in hits : \A h \in hits : h <= i][2]))

\* C17: the body of the creation request, read back from the wire, carries the
\* configured displayName, locale, recordingsUrl and resultsContainerUrl, with
\* the properties object exactly when the phrase list is not empty.
C17_BodyRoundTrip ==
    \A i \in DOMAIN requests :
        requests[i].api = "create" =>
            /\ JsonMember(requests[i].json, "displayName") = DISPLAY_NAME
            /\ JsonMember(requests[i].json, "locale") = LOCALE
            /\ JsonMember(requests[i].json, "recordingsUrl") = INPUT_CONTAINER_SAS_URL
            /\ JsonMember(requests[i].json, "resultsContainerUrl") = OUTPUT_CONTAINER_SAS_URL
            /\ requests[i].json.properties.present <=> PHRASES # <<>>

\* C17's case: a body with a display name that needs escaping and with the
\* properties object went out.
C17_Witness ==
    /\ CountApi("create") = 1
    /\ DISPLAY_NAME = "say \"hi\""
    /\ PHRASES # <<>>
    /\ requests[1].json.properties.present
    /\ JsonMember(requests[1].json, "displayName") = "say \"hi\""

\* The kinds of the model whose lower-cased text contains "transcription" or
\* "result".
KindWanted(k) == k \in {"Transcription", "TranscriptionReport", "RESULT"}

\* The listing of a succeeded job was walked to its end.
ListingWalked ==
    /\ prog = "bt" /\ pc = "exited" /\ exitcode = "0"
    /\ listing.status_code = 200

\* C18, as stated: a listed file is retrieved exactly when its kind is a
\* wanted one, whatever else holds.
C18_MarkedByKindAlone ==
    ListingWalked =>
        Len(downloaded) =
            Cardinality({i \in DOMAIN FilesOf(listing) : KindWanted(FilesOf(listing)[i].kind)})

\* Whether a listed file is to be retrieved: the download switch is on, the
\* file has a non-empty locator and its kind is a wanted one.
Wanted(f) == DOWNLOAD_RESULTS /\ UrlOf(f) \notin {None, ""} /\ KindWanted(f.kind)

\* The locators of the files to be retrieved, in the order of the listing.
RECURSIVE WantedUrls(_)
WantedUrls(files) ==
    IF files = <<>> THEN <<>>
    ELSE (IF Wanted(Head(files)) THEN <<UrlOf(Head(files))>> ELSE <<>>)
         \o WantedUrls(Tail(files))

\* C18, amended: a listed file is retrieved exactly when DOWNLOAD_RESULTS is
\* on, the file has a non-empty locator and its lower-cased kind contains
\* "transcription" or "result"; its name plays no part.  A refused download
\* ends the walk, with the files before it retrieved.
C18_MarkedByKindSwitchAndLocator ==
    prog = "bt" =>
        /\ ListingWalked => downloaded = WantedUrls(FilesOf(listing))
        /\ exc.at = "download_file" =>
              /\ Len(downloaded) < Len(WantedUrls(FilesOf(listing)))
              /\ downloaded = SubSeq(WantedUrls(FilesOf(listing)), 1, Len(downloaded))
        /\ CountApi("download") \in {Len(downloaded), Len(downloaded) + 1}

\* C18's case: of three listed files the two with a wanted kind were retrieved.
C18_Witness ==
    /\ ListingWalked /\ DOWNLOAD_RESULTS
    /\ Len(FilesOf(listing)) = 3
    /\ downloaded = <<"https://blob/a", "https://blob/r">>

\* The identifier by the precedence id, self, last path segment of Location
\* ("" when there is none).
JobIdByPrecedence(r) ==
    IF r.id \notin {None, ""} THEN r.id
    ELSE IF r.self \notin {None, ""} THEN r.self
    ELSE IF r.Location \notin {None, ""} THEN LastPathPart(r.Location)
    ELSE ""

\* C20: submit_job returns the identifier by the precedence id, self, last
\* path segment of Location when that is not empty, and raises RuntimeError
\* otherwise; the identifier it returns is never empty.
C20_JobIdByPrecedence ==
    [][(prog = "bt" /\ pc = "job_id") =>
          /\ job_id' # ""
          /\ IF JobIdByPrecedence(resp) # ""
             THEN pc' = "while" /\ job_id' = JobIdByPrecedence(resp)
             ELSE pc' = "raised" /\ exc'.type = "RuntimeError" /\ job_id' = None]_vars

\* C20's case: no id, no self, and a Location with an empty path.
C20_Witness ==
    /\ prog = "bt" /\ pc = "raised" /\ exc.type = "RuntimeError"
    /\ resp.id = "" /\ resp.self = None
    /\ resp.Location = "https://h"
    /\ job_id = None

\* C21, as stated, by its variant: every iteration of the polling loop brings
\* the accumulated wait closer to the deadline, so that a session whose job
\* never turns terminal ends after finitely many status fetches.
C21_EveryIterationAdvances ==
    [][(prog = "bt" /\ pc = "sleep" /\ pc' = "while") => waited' > waited]_vars

\* C22: a status fetch makes monitor_until_done return exactly when the
\* record's status (the status field, else the state field) is Succeeded,
\* Failed or Cancelled, and it returns that record; on every other value
\* (NotStarted, Running, a string it does not know, no field at all) it goes
\* on to the sleep and returns nothing.
C22_ReturnsOnlyTerminal ==
    [][(prog = "bt" /\ pc = "get_job" /\ fetches' = fetches + 1) =>
          LET st == IF job'.status \notin {None, ""} THEN job'.status ELSE job'.state IN
          IF st \in {"Succeeded", "Failed", "Cancelled"}
          THEN pc' = "monitor_returned" /\ main_job' = job'
          ELSE pc' = "sleep" /\ main_job' = NoJob /\ exc' = NoExc]_vars

\* C22's case: the second fetch was answered with a status in the wrong letter
\* case; monitor_until_done has returned nothing and is about to sleep.
C22_Witness ==
    /\ prog = "bt" /\ pc = "sleep"
    /\ fetches = 2 /\ Len(slept) = 1
    /\ job.status = "succeeded"
    /\ main_job = NoJob

\* The sum of a sequence of durations.
RECURSIVE SumOf(_)
SumOf(ds) == IF ds = <<>> THEN 0 ELSE Head(ds) + SumOf(Tail(ds))

\* C23: the accumulated wait is the sum of the intervals slept, and a sleep
\* is only started while it is below the deadline; at a timeout it has
\* reached the deadline, and without the last interval slept it was still
\* below it (with a positive deadline there is such an interval).
C23_OvershootBelowLastInterval ==
    prog = "bt" =>
        /\ waited = SumOf(slept)
        /\ pc = "sleep" => waited < Deadline
        /\ TimedOut =>
              /\ Deadline <= waited
              /\ Deadline > 0 => slept # <<>>
              /\ slept # <<>> => waited - slept[Len(slept)] < Deadline

\* C23's case: a timeout with the wait past the deadline, by less than the
\* last of several intervals slept.
C23_Witness ==
    /\ TimedOut
    /\ Len(slept) >= 2
    /\ waited > Deadline
    /\ waited - slept[Len(slept)] < Deadline
    /\ slept[Len(slept)] = 600

\* Every status fetch, the listing call and the timeout error name the
\* identifier main holds, and at most one job was created.
OneJobNamed ==
    /\ CountApi("create") <= 1
    /\ \A i \in DOMAIN requests :
          requests[i].api \in {"get_job", "list_files"} =>
              /\ requests[i].job = job_id
              /\ job_id \notin {None, ""}
    /\ TimedOut => exc.args[1] = job_id

\* C24: once submit_job has returned it, the job identifier never changes,
\* every status fetch, the timeout error and the listing call name it, and
\* the run creates one job only.
C24_JobIdImmutable ==
    [][prog = "bt" =>
          /\ job_id # None => job_id' = job_id
          /\ OneJobNamed']_vars

\* C24's case: a run that polled twice, listed the files and downloaded one,
\* all for the job named by the Location header.
C24_Witness ==
    /\ prog = "bt" /\ pc = "exited"
    /\ job_id = "J3"
    /\ CountApi("create") = 1
    /\ CountApi("get_job") = 2
    /\ CountApi("list_files") = 1
    /\ CountApi("download") = 1
    /\ OneJobNamed

=============================================================================
